---- MODULE Spec2Model ----
(***************************************************************************)
(* The lobby routes of durak-cards (express router over the Lobby          *)
(* collection): create, inspect, delete, join and name check, each request *)
(* handled by an independent worker that reads a snapshot of the lobby     *)
(* document, decides, and writes back.                                     *)
(***************************************************************************)
EXTENDS Integers, Sequences, FiniteSets, TLC

VARIABLES lobbies, nextId, pc, loc, served, last, emitted

vars == <<lobbies, nextId, pc, loc, served, last, emitted>>

(***************************************************************************)
(* Bounds of the model.                                                    *)
(***************************************************************************)
\* requests served in one behaviour
MaxRequests == 3
\* largest maxPlayers a valid create request of the model asks for
MaxN == 3

(***************************************************************************)
(* Constants of the program.                                               *)
(***************************************************************************)
MinPlayers == 2
MaxPlayersShortDeck == 6
MaxPlayersFullDeck == 8
MinRoundTimeout == 60
MaxRoundTimeout == 600
PassphraseLength == 4
MaxNameLength == 20

(***************************************************************************)
(* Values.  A string is a sequence of characters; a body field is either   *)
(* undefined or a string.                                                  *)
(***************************************************************************)
Undefined == [def |-> FALSE, str |-> <<>>]
Str(s) == [def |-> TRUE, str |-> s]

Whitespace == {" "}

Ann == <<"a", "n", "n">>
Bob == <<"b", "o", "b">>
Cat == <<"c", "a", "t">>
\* a name holding a blank, and one of MaxNameLength + 1 characters
Blank == <<"a", " ", "b">>
Long == [i \in 1..(MaxNameLength + 1) |-> "x"]

\* the registered accounts (token.data.name; the id is the account itself)
Users == {Ann, Bob}
NoUser == <<>>
\* the accounts that create lobbies in the model
Owners == {Ann}

\* createGamePin() yields PinLength digits
PinLength == 6
Digits == {"0", "1", "2", "3", "4", "5", "6", "7", "8", "9"}
GamePins == {<<"4", "8", "2", "9", "1", "3">>, <<"0", "0", "0", "0", "1", "7">>}
NoPin == <<>>
Q7ZK == <<"Q", "7", "Z", "K">>
ABCD == <<"A", "B", "C", "D">>
GamePassphrases == {Q7ZK}

Workers == {"w1", "w2"}

\* request bodies the model draws from
PassphraseInputs == {Undefined, Str(Q7ZK), Str(ABCD), Str(<<"Q", "7", "Z">>)}
NameInputs == {Undefined, Str(Ann), Str(Bob), Str(Cat), Str(Blank), Str(Long)}
\* a request with a token carries no name (the handler never reads it then)
JoinRequests ==
    [user : Users, passphrase : PassphraseInputs, name : {Undefined}]
    \cup [user : {NoUser}, passphrase : PassphraseInputs, name : NameInputs]
\* the valid bodies ask for the smallest lobby (short deck, longest round) or
\* for the largest of the model; the rest fail the validation one parameter at
\* a time
CreateBodies ==
    [maxPlayers : {MinPlayers}, with2FA : BOOLEAN, shortGameDeck : {TRUE},
     roundTimeout : {MaxRoundTimeout}]
    \cup [maxPlayers : {MaxN}, with2FA : BOOLEAN, shortGameDeck : {FALSE},
          roundTimeout : {MinRoundTimeout}]
    \cup [maxPlayers : {MinPlayers - 1, MaxPlayersFullDeck + 1}, with2FA : {FALSE},
          shortGameDeck : {FALSE}, roundTimeout : {MinRoundTimeout}]
    \cup [maxPlayers : {MaxPlayersShortDeck + 1}, with2FA : {FALSE},
          shortGameDeck : {TRUE}, roundTimeout : {MinRoundTimeout}]
    \cup [maxPlayers : {MinPlayers}, with2FA : {FALSE}, shortGameDeck : {FALSE},
          roundTimeout : {MinRoundTimeout - 1, MaxRoundTimeout + 1}]

(***************************************************************************)
(* Pure parts of the handlers.                                             *)
(***************************************************************************)
\* GameSchema.validate(req.body)
ValidGame(body) ==
    /\ body.maxPlayers >= MinPlayers
    /\ body.maxPlayers <= (IF body.shortGameDeck THEN MaxPlayersShortDeck ELSE MaxPlayersFullDeck)
    /\ body.roundTimeout >= MinRoundTimeout
    /\ body.roundTimeout <= MaxRoundTimeout

\* const player = {name, socketId: null, confirmed: false, registered}
JoinPlayerConfirmed(req) ==
    IF req.user # NoUser
    THEN [name |-> req.user, registered |-> TRUE, confirmed |-> TRUE]
    ELSE [name |-> req.name.str, registered |-> FALSE, confirmed |-> TRUE]

JoinPlayer(req) ==
    IF req.user # NoUser
    THEN [name |-> req.user, registered |-> TRUE, confirmed |-> FALSE]
    ELSE [name |-> req.name.str, registered |-> FALSE, confirmed |-> FALSE]

NewLobbyOwnerUnconfirmed(id, owner, body, gamePin, passphrase) ==
    [id |-> id, pin |-> gamePin, owner |-> owner,
     maxPlayers |-> body.maxPlayers, roundTimeout |-> body.roundTimeout,
     shortGameDeck |-> body.shortGameDeck, with2FA |-> body.with2FA,
     passphrase |-> IF body.with2FA THEN Str(passphrase) ELSE Undefined,
     status |-> "WAITING",
     players |-> << [name |-> owner, registered |-> TRUE, confirmed |-> FALSE] >>]

\* new Lobby({...}): the owner is put into the lobby, confirmed and registered
NewLobby(id, owner, body, gamePin, passphrase) ==
    [id |-> id, pin |-> gamePin, owner |-> owner,
     maxPlayers |-> body.maxPlayers, roundTimeout |-> body.roundTimeout,
     shortGameDeck |-> body.shortGameDeck, with2FA |-> body.with2FA,
     passphrase |-> IF body.with2FA THEN Str(passphrase) ELSE Undefined,
     status |-> "WAITING",
     players |-> << [name |-> owner, registered |-> TRUE, confirmed |-> TRUE] >>]

\* lobby.players.filter((player) => player.confirmed)
ConfirmedPlayers(lobby) == SelectSeq(lobby.players, LAMBDA player : player.confirmed)

\* Joi.string().length(4): undefined passes, a string must have 4 characters
PassphraseShapeOk(passphrase) ==
    ~passphrase.def \/ Len(passphrase.str) = PassphraseLength

\* players.length === lobby.maxPlayers || lobby.status !== GameStatus.WAITING
NotJoinable(lobby) ==
    Len(ConfirmedPlayers(lobby)) = lobby.maxPlayers \/ lobby.status # "WAITING"

PassphraseMismatchWhenSent(lobby, passphrase) ==
    lobby.with2FA /\ passphrase.def /\ lobby.passphrase # passphrase

\* lobby.with2FA && lobby.passphrase !== req.body.passphrase
PassphraseMismatch(lobby, passphrase) ==
    lobby.with2FA /\ lobby.passphrase # passphrase

JoinedTwiceConfirmedOnly(lobby, user) ==
    \E i \in DOMAIN lobby.players :
        /\ lobby.players[i].registered
        /\ lobby.players[i].confirmed
        /\ lobby.players[i].name = user

\* lobby.players.filter(p => p.registered).find(p => p.name === req.token.data.name)
JoinedTwice(lobby, user) ==
    \E i \in DOMAIN lobby.players :
        lobby.players[i].registered /\ lobby.players[i].name = user

\* Joi.string().regex(/^[^\s]{1,20}$/).min(1).max(20).required()
NameShapeOk(name) ==
    /\ name.def
    /\ Len(name.str) >= 1
    /\ Len(name.str) <= MaxNameLength
    /\ \A i \in DOMAIN name.str : name.str[i] \notin Whitespace

\* checkIfNameFree(lobby, name): no confirmed slot holds exactly that name
checkIfNameFree(lobby, name) ==
    ~\E i \in DOMAIN lobby.players :
        lobby.players[i].confirmed /\ lobby.players[i].name = name

\* lobby.players.findIndex(player => !player.confirmed), 0 for the -1 of none
overwriteConnectionIndex(players) ==
    IF \E i \in DOMAIN players : ~players[i].confirmed
    THEN CHOOSE i \in DOMAIN players :
            /\ ~players[i].confirmed
            /\ \A j \in DOMAIN players : ~players[j].confirmed => i <= j
    ELSE 0

PlaceAlwaysPush(lobby, player) == Append(lobby.players, player)

\* the un-honoured entry is overwritten when the array is full, else push
PlacePlayer(lobby, player) ==
    IF Len(lobby.players) = lobby.maxPlayers
    THEN LET i == overwriteConnectionIndex(lobby.players)
         IN  IF i = 0 THEN lobby.players ELSE [lobby.players EXCEPT ![i] = player]
    ELSE Append(lobby.players, player)

JoinResultPassphraseFirst(lobby, req) ==
    IF ~PassphraseShapeOk(req.passphrase) THEN "BadRequest"
    ELSE IF PassphraseMismatch(lobby, req.passphrase) THEN "InvalidPassphrase"
    ELSE IF NotJoinable(lobby) THEN "LobbyFull"
    ELSE IF req.user # NoUser
         THEN IF JoinedTwice(lobby, req.user) THEN "AlreadyJoined" ELSE "Ok"
    ELSE IF ~NameShapeOk(req.name) THEN "BadName"
    ELSE IF ~checkIfNameFree(lobby, req.name.str) THEN "NameTaken"
    ELSE "Ok"

\* the decision of POST /:pin/join on the snapshot it read
JoinResult(lobby, req) ==
    IF ~PassphraseShapeOk(req.passphrase) THEN "BadRequest"
    ELSE IF NotJoinable(lobby) THEN "LobbyFull"
    ELSE IF PassphraseMismatch(lobby, req.passphrase) THEN "InvalidPassphrase"
    ELSE IF req.user # NoUser
         THEN IF JoinedTwice(lobby, req.user) THEN "AlreadyJoined" ELSE "Ok"
    ELSE IF ~NameShapeOk(req.name) THEN "BadName"
    ELSE IF ~checkIfNameFree(lobby, req.name.str) THEN "NameTaken"
    ELSE "Ok"

(***************************************************************************)
(* The repository: the Lobby collection.                                   *)
(***************************************************************************)
\* Lobby.find({pin}) / Lobby.findOne({pin}): the documents with that pin
FindByPin(repo, pin) == {l \in repo : l.pin = pin}

InsertNoUniquePin(repo, doc) == [ok |-> TRUE, repo |-> repo \cup {doc}]

\* newGame.save(): the insert fails when a live lobby holds the pin
Insert(repo, doc) ==
    IF FindByPin(repo, doc.pin) # {}
    THEN [ok |-> FALSE, repo |-> repo]
    ELSE [ok |-> TRUE, repo |-> repo \cup {doc}]

UpdateEveryLobby(repo, id, players) == {[l EXCEPT !.players = players] : l \in repo}

\* Lobby.findOneAndUpdate({_id: lobby._id}, {$set: {'players': lobby.players}})
FindOneAndUpdate(repo, id, players) ==
    {IF l.id = id THEN [l EXCEPT !.players = players] ELSE l : l \in repo}

(***************************************************************************)
(* Responses and the workers' local state.                                 *)
(***************************************************************************)
NoLoc == [op |-> "none"]
NoPlayer == [name |-> <<>>, registered |-> FALSE, confirmed |-> FALSE]

\* the last response sent (or the last outside event), with what it carried
Response(op, res, pin) ==
    [op |-> op, res |-> res, pin |-> pin, id |-> 0, player |-> NoPlayer,
     cred |-> {}, raced |-> {}]

NoResponse == Response("none", "none", NoPin)

Respond(w, r) ==
    /\ pc' = [pc EXCEPT ![w] = "idle"]
    /\ loc' = [loc EXCEPT ![w] = NoLoc]
    /\ last' = r

Accept(w) == pc[w] = "idle" /\ served < MaxRequests /\ served' = served + 1

Init ==
    /\ lobbies = {}
    /\ nextId = 1
    /\ pc = [w \in Workers |-> "idle"]
    /\ loc = [w \in Workers |-> NoLoc]
    /\ served = 0
    /\ last = NoResponse
    /\ emitted = <<>>

(***************************************************************************)
(* POST /  (create)                                                        *)
(***************************************************************************)
CreateStart(w, user, body) ==
    /\ Accept(w)
    /\ IF ~ValidGame(body)
       THEN Respond(w, Response("create", "BadRequest", NoPin))
       ELSE /\ pc' = [pc EXCEPT ![w] = "pin"]
            /\ loc' = [loc EXCEPT ![w] = [op |-> "create", user |-> user, body |-> body]]
            /\ UNCHANGED last
    /\ UNCHANGED <<lobbies, nextId, emitted>>

\* one turn of the do/while: a pin is drawn into gamePin and looked up; the
\* loop goes round again when a lobby holds it
CreatePin(w, gamePin) ==
    /\ pc[w] = "pin"
    /\ pc' = [pc EXCEPT ![w] = IF FindByPin(lobbies, gamePin) # {} THEN "pin" ELSE "save"]
    /\ loc' = [loc EXCEPT ![w] =
                 [op |-> "create", user |-> loc[w].user, body |-> loc[w].body,
                  pin |-> gamePin]]
    /\ UNCHANGED <<lobbies, nextId, served, last, emitted>>

CreateSave(w, passphrase) ==
    /\ pc[w] = "save"
    /\ LET newGame == NewLobby(nextId, loc[w].user, loc[w].body, loc[w].pin, passphrase)
           saved == Insert(lobbies, newGame)
       IN  /\ lobbies' = saved.repo
           /\ nextId' = IF saved.ok THEN nextId + 1 ELSE nextId
           /\ IF saved.ok
              THEN Respond(w, [Response("create", "Created", loc[w].pin) EXCEPT !.id = nextId])
              ELSE Respond(w, Response("create", "Internal", loc[w].pin))
    /\ UNCHANGED <<served, emitted>>

(***************************************************************************)
(* GET /:pin  (inspect)                                                    *)
(***************************************************************************)
InspectResult(lobby) == IF NotJoinable(lobby) THEN "LobbyFull" ELSE "Ok"

Inspect(w, pin) ==
    /\ Accept(w)
    /\ IF FindByPin(lobbies, pin) = {}
       THEN Respond(w, Response("inspect", "NotFound", pin))
       ELSE \E lobby \in FindByPin(lobbies, pin) :
                Respond(w, [Response("inspect", InspectResult(lobby), pin) EXCEPT !.id = lobby.id])
    /\ UNCHANGED <<lobbies, nextId, emitted>>

(***************************************************************************)
(* DELETE /:pin                                                            *)
(***************************************************************************)
IsOwnerAnyone(lobby, user) == TRUE

\* lobby.owner._id.equals(req.token.data.id)
IsOwner(lobby, user) == lobby.owner = user

DeleteFind(w, user, pin) ==
    /\ Accept(w)
    /\ IF FindByPin(lobbies, pin) = {}
       THEN Respond(w, Response("delete", "NotFound", pin))
       ELSE \E lobby \in FindByPin(lobbies, pin) :
                IF ~IsOwner(lobby, user)
                THEN Respond(w, [Response("delete", "Unauthorized", pin) EXCEPT !.id = lobby.id])
                ELSE /\ pc' = [pc EXCEPT ![w] = "delete"]
                     /\ loc' = [loc EXCEPT ![w] = [op |-> "delete", pin |-> pin]]
                     /\ UNCHANGED last
    /\ UNCHANGED <<lobbies, nextId, emitted>>

\* emitLobbyEvent(pin, ClientEvents.CLOSE, {reason: "lobby_closed"}): the event
\* is handed to the broadcaster, which may or may not get it to the clients
CloseEvent(pin, delivered) == [pin |-> pin, reason |-> "lobby_closed", delivered |-> delivered]

DeleteOneKeepsLobby(w, delivered) ==
    /\ pc[w] = "delete"
    /\ emitted' = Append(emitted, CloseEvent(loc[w].pin, delivered))
    /\ Respond(w, Response("delete", "Ok", loc[w].pin))
    /\ UNCHANGED <<lobbies, nextId, served>>

\* Lobby.deleteOne({pin}) without error: at most one document goes, then the
\* close event is emitted and the request answered
DeleteOne(w, delivered) ==
    /\ pc[w] = "delete"
    /\ IF FindByPin(lobbies, loc[w].pin) = {}
       THEN UNCHANGED lobbies
       ELSE \E lobby \in FindByPin(lobbies, loc[w].pin) : lobbies' = lobbies \ {lobby}
    /\ emitted' = Append(emitted, CloseEvent(loc[w].pin, delivered))
    /\ Respond(w, Response("delete", "Ok", loc[w].pin))
    /\ UNCHANGED <<nextId, served>>

DeleteOneErrorEmits(w) ==
    /\ pc[w] = "delete"
    /\ emitted' = Append(emitted, CloseEvent(loc[w].pin, TRUE))
    /\ Respond(w, Response("delete", "Internal", loc[w].pin))
    /\ UNCHANGED <<lobbies, nextId, served>>

\* Lobby.deleteOne({pin}) calling back with an error
DeleteOneError(w) ==
    /\ pc[w] = "delete"
    /\ Respond(w, Response("delete", "Internal", loc[w].pin))
    /\ UNCHANGED <<lobbies, nextId, served, emitted>>

(***************************************************************************)
(* POST /:pin/join                                                         *)
(***************************************************************************)
JoinRead(w, pin, req) ==
    /\ Accept(w)
    /\ IF FindByPin(lobbies, pin) = {}
       THEN Respond(w, Response("join", "NotFound", pin))
       ELSE \E lobby \in FindByPin(lobbies, pin) :
                IF JoinResult(lobby, req) # "Ok"
                THEN Respond(w, [Response("join", JoinResult(lobby, req), pin) EXCEPT !.id = lobby.id])
                ELSE /\ pc' = [pc EXCEPT ![w] = "write"]
                     /\ loc' = [loc EXCEPT ![w] =
                                  [op |-> "join", lobby |-> lobby,
                                   player |-> JoinPlayer(req),
                                   players |-> PlacePlayer(lobby, JoinPlayer(req)),
                                   raced |-> {}]]
                     /\ UNCHANGED last
    /\ UNCHANGED <<lobbies, nextId, emitted>>

CredentialsForAll(player, pin) == {[name |-> player.name, pin |-> pin]}

\* createTokens({name, pin}), sent to unregistered joiners only
Credentials(player, pin) ==
    IF player.registered THEN {} ELSE {[name |-> player.name, pin |-> pin]}

\* the joins that read the lobby before this write and have yet to write theirs
Racing(w) ==
    {v \in Workers \ {w} :
        /\ pc[v] = "write"
        /\ loc[v].lobby.id = loc[w].lobby.id
        /\ \E l \in lobbies : l.id = loc[w].lobby.id}

JoinWrite(w) ==
    /\ pc[w] = "write"
    /\ lobbies' = FindOneAndUpdate(lobbies, loc[w].lobby.id, loc[w].players)
    /\ pc' = [pc EXCEPT ![w] = "idle"]
    /\ loc' = [v \in Workers |->
                 IF v = w THEN NoLoc
                 ELSE IF v \in Racing(w)
                      THEN [loc[v] EXCEPT !.raced = @ \cup {loc[w].player}]
                      ELSE loc[v]]
    /\ last' = [Response("join", "Ok", loc[w].lobby.pin) EXCEPT
                   !.id = loc[w].lobby.id,
                   !.player = loc[w].player,
                   !.cred = Credentials(loc[w].player, loc[w].lobby.pin),
                   !.raced = loc[w].raced]
    /\ UNCHANGED <<nextId, served, emitted>>

(***************************************************************************)
(* POST /:pin/name  (name check)                                           *)
(***************************************************************************)
CheckNameResultAnySlot(lobby, name) ==
    IF ~name.def THEN "BadRequest"
    ELSE IF \E i \in DOMAIN lobby.players : lobby.players[i].name = name.str THEN "NameTaken"
    ELSE "Ok"

\* POST /:pin/name once the lobby is found
CheckNameResult(lobby, name) ==
    IF ~name.def THEN "BadRequest"
    ELSE IF ~checkIfNameFree(lobby, name.str) THEN "NameTaken"
    ELSE "Ok"

CheckNameReservesName(w, pin, name) ==
    /\ Accept(w)
    /\ IF FindByPin(lobbies, pin) = {}
       THEN /\ Respond(w, Response("name", "NotFound", pin))
            /\ UNCHANGED lobbies
       ELSE \E lobby \in FindByPin(lobbies, pin) :
                /\ Respond(w, [Response("name", CheckNameResult(lobby, name), pin) EXCEPT
                                  !.id = lobby.id,
                                  !.player = [NoPlayer EXCEPT !.name = name.str]])
                /\ lobbies' = IF CheckNameResult(lobby, name) = "Ok"
                                   /\ Len(lobby.players) < lobby.maxPlayers
                              THEN FindOneAndUpdate(lobbies, lobby.id,
                                       Append(lobby.players,
                                              [NoPlayer EXCEPT !.name = name.str]))
                              ELSE lobbies
    /\ UNCHANGED <<nextId, emitted>>

CheckName(w, pin, name) ==
    /\ Accept(w)
    /\ IF FindByPin(lobbies, pin) = {}
       THEN Respond(w, Response("name", "NotFound", pin))
       ELSE \E lobby \in FindByPin(lobbies, pin) :
                Respond(w, [Response("name", CheckNameResult(lobby, name), pin) EXCEPT
                               !.id = lobby.id,
                               !.player = [NoPlayer EXCEPT !.name = name.str]])
    /\ UNCHANGED <<lobbies, nextId, emitted>>

(***************************************************************************)
(* Outside this router: a joined player's connection confirms its slot,    *)
(* and the owner starts the game.                                          *)
(***************************************************************************)
Confirm(lobby, i) ==
    /\ lobby \in lobbies
    /\ i \in DOMAIN lobby.players
    /\ ~lobby.players[i].confirmed
    /\ lobbies' = (lobbies \ {lobby}) \cup {[lobby EXCEPT !.players[i].confirmed = TRUE]}
    /\ last' = [Response("confirm", "none", lobby.pin) EXCEPT !.id = lobby.id]
    /\ UNCHANGED <<nextId, pc, loc, served, emitted>>

StartGame(lobby) ==
    /\ lobby \in lobbies
    /\ lobby.status = "WAITING"
    /\ lobbies' = (lobbies \ {lobby}) \cup {[lobby EXCEPT !.status = "PLAYING"]}
    /\ last' = [Response("start", "none", lobby.pin) EXCEPT !.id = lobby.id]
    /\ UNCHANGED <<nextId, pc, loc, served, emitted>>

Next ==
    \/ \E w \in Workers, user \in Owners, body \in CreateBodies : CreateStart(w, user, body)
    \/ \E w \in Workers, gamePin \in GamePins : CreatePin(w, gamePin)
    \/ \E w \in Workers, passphrase \in GamePassphrases : CreateSave(w, passphrase)
    \/ \E w \in Workers, pin \in GamePins : Inspect(w, pin)
    \/ \E w \in Workers, user \in Users, pin \in GamePins : DeleteFind(w, user, pin)
    \/ \E w \in Workers, delivered \in BOOLEAN : DeleteOne(w, delivered)
    \/ \E w \in Workers : DeleteOneError(w)
    \/ \E w \in Workers, pin \in GamePins, req \in JoinRequests : JoinRead(w, pin, req)
    \/ \E w \in Workers : JoinWrite(w)
    \/ \E w \in Workers, pin \in GamePins, name \in NameInputs : CheckName(w, pin, name)
    \/ \E lobby \in lobbies, i \in 1..MaxPlayersFullDeck : Confirm(lobby, i)
    \/ \E lobby \in lobbies : StartGame(lobby)

Spec == Init /\ [][Next]_vars

\* A handler that has been accepted keeps running: the event loop resumes it
\* after each await, and the pin generator sooner or later draws every pin
\* it can produce.
Fairness ==
    \A w \in Workers :
        /\ \A gamePin \in GamePins : WF_vars(CreatePin(w, gamePin))
        /\ WF_vars(\E passphrase \in GamePassphrases : CreateSave(w, passphrase))
        /\ WF_vars((\E delivered \in BOOLEAN : DeleteOne(w, delivered)) \/ DeleteOneError(w))
        /\ WF_vars(JoinWrite(w))

FairSpec == Init /\ [][Next]_vars /\ Fairness

(***************************************************************************)
(* Properties.                                                             *)
(***************************************************************************)
HoldsSlot(lobby, player) ==
    \E i \in DOMAIN lobby.players :
        /\ lobby.players[i].name = player.name
        /\ lobby.players[i].registered = player.registered

\* an anonymous join request
Anonymous(passphrase, name) == [user |-> NoUser, passphrase |-> passphrase, name |-> Str(name)]

\* the checks of a join that come before the name checks
PassesGates(lobby, req) ==
    /\ PassphraseShapeOk(req.passphrase)
    /\ ~NotJoinable(lobby)
    /\ ~PassphraseMismatch(lobby, req.passphrase)

\* C1: in every reachable state, a lobby has at most maxPlayers confirmed
\* slots and its players array is at most maxPlayers long.
CapacityInvariant ==
    \A l \in lobbies :
        /\ Len(ConfirmedPlayers(l)) <= l.maxPlayers
        /\ Len(l.players) <= l.maxPlayers

\* a lobby whose slots are all confirmed has just turned a join away
CapacityWitness ==
    \E l \in lobbies :
        /\ Len(ConfirmedPlayers(l)) = l.maxPlayers
        /\ last.op = "join" /\ last.res = "LobbyFull" /\ last.id = l.id

\* C2: after a join has written and answered with success, the lobby holds a
\* slot for it and for every join that raced it (read before this write,
\* wrote before it) and answered with success too.
NoJoinerDropped ==
    (last.op = "join" /\ last.res = "Ok") =>
        \A l \in lobbies : l.id = last.id =>
            \A player \in last.raced \cup {last.player} : HoldsSlot(l, player)

\* C3: the write of a join leaves every slot that is confirmed in the stored
\* lobby at that moment as it is.
ConfirmedSlotKept ==
    [][\A w \in Workers : (pc[w] = "write" /\ pc'[w] = "idle") =>
          \A l \in lobbies : l.id = loc[w].lobby.id =>
              \A i \in DOMAIN l.players : l.players[i].confirmed =>
                  \E m \in lobbies' :
                      /\ m.id = l.id
                      /\ i \in DOMAIN m.players
                      /\ m.players[i] = l.players[i]]_vars

ClaimedJoinResult(lobby, req) ==
    IF lobby.status # "WAITING" \/ ~(Len(ConfirmedPlayers(lobby)) < lobby.maxPlayers)
    THEN "LobbyFull"
    ELSE IF lobby.with2FA /\ req.passphrase # lobby.passphrase THEN "InvalidPassphrase"
    ELSE IF req.user # NoUser /\ HoldsSlot(lobby, [name |-> req.user, registered |-> TRUE])
    THEN "AlreadyJoined"
    ELSE IF req.user # NoUser THEN "Ok"
    ELSE IF ~NameShapeOk(req.name) THEN "BadName"
    ELSE IF \E i \in DOMAIN lobby.players :
                lobby.players[i].confirmed /\ lobby.players[i].name = req.name.str
    THEN "NameTaken"
    ELSE "Ok"

\* C5 as stated: a join request gets the result of the first failing check
\* in the order capacity/status, passphrase, already joined, name shape, name
\* taken; and a lobby that is full or not WAITING answers LobbyFull whatever
\* passphrase and name the request holds.
JoinCheckOrder ==
    \A l \in lobbies, req \in JoinRequests :
        /\ PassphraseShapeOk(req.passphrase) => JoinResult(l, req) = ClaimedJoinResult(l, req)
        /\ NotJoinable(l) => JoinResult(l, req) = "LobbyFull"

\* C5 amended: a passphrase that is present and not 4 characters long gives
\* BadRequest before every other check; every other request gets the result
\* of the first failing check in the stated order.
JoinCheckOrderAfterShape ==
    \A l \in lobbies, req \in JoinRequests :
        LET result == JoinResult(l, req)
        IN  /\ ~PassphraseShapeOk(req.passphrase) => result = "BadRequest"
            /\ PassphraseShapeOk(req.passphrase) =>
                  /\ result = ClaimedJoinResult(l, req)
                  /\ NotJoinable(l) => result = "LobbyFull"

\* a lobby behind a passphrase that is full or started has answered LobbyFull
JoinCheckOrderWitness ==
    \E l \in lobbies :
        /\ NotJoinable(l) /\ l.with2FA
        /\ last.op = "join" /\ last.res = "LobbyFull" /\ last.id = l.id

\* C6 as stated: a lobby with 2FA accepts no join whose passphrase differs
\* from its own (a missing one included), and without 2FA the passphrase of
\* the request never turns an admission into a refusal.
PassphraseGate ==
    \A l \in lobbies, req \in JoinRequests :
        /\ (l.with2FA /\ req.passphrase # l.passphrase) => JoinResult(l, req) # "Ok"
        /\ (~l.with2FA /\ JoinResult(l, [req EXCEPT !.passphrase = Undefined]) = "Ok")
              => JoinResult(l, req) = "Ok"

\* C6 amended: the same, where without 2FA only a passphrase that is absent
\* or 4 characters long is sure not to matter: any other is refused with
\* BadRequest whatever the lobby's with2FA.
PassphraseGateAfterShape ==
    \A l \in lobbies, req \in JoinRequests :
        LET result == JoinResult(l, req)
        IN  /\ (l.with2FA /\ req.passphrase # l.passphrase) => result # "Ok"
            /\ (~l.with2FA /\ PassphraseShapeOk(req.passphrase)
                   /\ JoinResult(l, [req EXCEPT !.passphrase = Undefined]) = "Ok")
                  => result = "Ok"
            /\ ~PassphraseShapeOk(req.passphrase) => result = "BadRequest"

\* a joinable lobby with 2FA has refused a join for its passphrase
PassphraseGateWitness ==
    \E l \in lobbies :
        /\ l.with2FA /\ ~NotJoinable(l)
        /\ last.op = "join" /\ last.res = "InvalidPassphrase" /\ last.id = l.id

RepeatedJoinNameTaken ==
    \A l \in lobbies :
        (last.op = "join" /\ last.res = "Ok" /\ last.id = l.id /\ ~last.player.registered) =>
            \A passphrase \in PassphraseInputs :
                (PassphraseShapeOk(passphrase) /\ ~PassphraseMismatch(l, passphrase)) =>
                    JoinResult(l, Anonymous(passphrase, last.player.name)) = "NameTaken"

\* C9 as stated: the name check answers "taken" exactly when a confirmed
\* slot holds the name, and after the answer "free" an anonymous join with
\* that name, sent at once with a passphrase of the joiner's choice, succeeds.
CheckNameAgreesWithJoin ==
    \A l \in lobbies : (last.op = "name" /\ last.id = l.id) =>
        /\ last.res = "NameTaken" <=>
              \E i \in DOMAIN l.players :
                  l.players[i].confirmed /\ l.players[i].name = last.player.name
        /\ last.res = "Ok" =>
              \E passphrase \in PassphraseInputs :
                  JoinResult(l, Anonymous(passphrase, last.player.name)) = "Ok"

\* C9 amended: the name check answers "taken" exactly when a confirmed slot
\* holds the name; after the answer "free" an anonymous join with that name
\* sent at once is never refused with NameTaken, and it succeeds when the
\* lobby is WAITING with a confirmed count below maxPlayers, the passphrase
\* passes and the name has the shape a join asks for.
CheckNameAgreesWhenJoinable ==
    \A l \in lobbies : (last.op = "name" /\ last.id = l.id) =>
        /\ last.res = "NameTaken" <=>
              \E i \in DOMAIN l.players :
                  l.players[i].confirmed /\ l.players[i].name = last.player.name
        /\ last.res = "Ok" =>
              \A passphrase \in PassphraseInputs :
                  LET req == Anonymous(passphrase, last.player.name)
                  IN  /\ JoinResult(l, req) # "NameTaken"
                      /\ (PassesGates(l, req) /\ NameShapeOk(req.name))
                            => JoinResult(l, req) = "Ok"

\* a name held by an unconfirmed slot only was reported free on a joinable lobby
CheckNameWitness ==
    \E l \in lobbies :
        /\ last.op = "name" /\ last.res = "Ok" /\ last.id = l.id
        /\ ~NotJoinable(l)
        /\ \E i \in DOMAIN l.players : l.players[i].name = last.player.name

\* C10 as stated: a join with a token that passes the capacity and
\* passphrase checks is refused with AlreadyJoined exactly when a slot that
\* is registered and confirmed holds the account's name.
AlreadyJoinedConfirmedOnly ==
    \A l \in lobbies, req \in JoinRequests :
        (req.user # NoUser /\ PassesGates(l, req)) =>
            (JoinResult(l, req) = "AlreadyJoined" <=>
                \E i \in DOMAIN l.players :
                    /\ l.players[i].registered /\ l.players[i].confirmed
                    /\ l.players[i].name = req.user)

\* C10 amended: such a join is refused with AlreadyJoined exactly when a
\* registered slot, confirmed or not, holds the account's name; it is
\* admitted otherwise, also when an unregistered slot holds that name.
AlreadyJoinedAnyRegisteredSlot ==
    \A l \in lobbies, req \in JoinRequests :
        (req.user # NoUser /\ PassesGates(l, req)) =>
            LET result == JoinResult(l, req)
            IN  /\ result = "AlreadyJoined" <=>
                      \E i \in DOMAIN l.players :
                          l.players[i].registered /\ l.players[i].name = req.user
                /\ result \in {"AlreadyJoined", "Ok"}

\* an account whose only slot is unconfirmed was refused on a joinable lobby
AlreadyJoinedWitness ==
    \E l \in lobbies :
        /\ last.op = "join" /\ last.res = "AlreadyJoined" /\ last.id = l.id
        /\ ~NotJoinable(l)
        /\ \E i \in DOMAIN l.players :
              /\ l.players[i].registered /\ ~l.players[i].confirmed
              /\ \A j \in DOMAIN l.players :
                    (l.players[j].registered /\ l.players[j].confirmed)
                        => l.players[j].name # l.players[i].name

\* C11: a delete request from a user who is not the owner of the lobby it
\* finds is answered Unauthorized at once; the repository is left as it was
\* (the lobby still there, unchanged) and no close event is emitted.
DeleteByNonOwner ==
    [][\A w \in Workers, user \in Users, pin \in GamePins :
          (DeleteFind(w, user, pin) /\ \E l \in FindByPin(lobbies, pin) : l.owner # user) =>
              /\ pc'[w] = "idle"
              /\ last'.op = "delete" /\ last'.res = "Unauthorized"
              /\ lobbies' = lobbies
              /\ emitted' = emitted]_vars

\* a delete was refused as unauthorized and its lobby is still stored
DeleteByNonOwnerWitness ==
    /\ last.op = "delete" /\ last.res = "Unauthorized"
    /\ \E l \in lobbies : l.id = last.id /\ l.pin = last.pin
    /\ emitted = <<>>

\* C12: when a delete answers with success no lobby holds its pin any more;
\* a pin that no lobby holds gets a lobby again only by a create that
\* answers Created with that pin; and an inspect, a join or a name check of
\* a pin that no lobby holds answers NotFound.
GoneAfterDelete ==
    [][/\ \A w \in Workers :
             (pc[w] = "delete" /\ last'.op = "delete" /\ last'.res = "Ok" /\ pc'[w] = "idle")
                 => FindByPin(lobbies', last'.pin) = {}
       /\ \A pin \in GamePins :
             (FindByPin(lobbies, pin) = {} /\ FindByPin(lobbies', pin) # {})
                 => (last'.op = "create" /\ last'.res = "Created" /\ last'.pin = pin)
       /\ (served' # served /\ pc' = pc /\ last'.op \in {"inspect", "join", "name"}
              /\ FindByPin(lobbies, last'.pin) = {})
             => (last'.res = "NotFound" /\ lobbies' = lobbies)
       /\ \A w \in Workers : (pc[w] = "idle" /\ pc'[w] = "write") =>
             FindByPin(lobbies, loc'[w].lobby.pin) # {}]_vars

\* a lobby was closed by its owner and a later join of its pin found nothing
GoneAfterDeleteWitness ==
    /\ last.op = "join" /\ last.res = "NotFound"
    /\ \E i \in DOMAIN emitted : emitted[i].pin = last.pin
    /\ FindByPin(lobbies, last.pin) = {}

\* C13: the close event of a pin, with reason "lobby_closed", is emitted only
\* in the step in which a delete of that pin answers with success, once, and
\* no lobby holds the pin after that step; a delete that answers NotFound,
\* Unauthorized or Internal emits nothing; and the delete answers with
\* success whether or not the event gets to the clients.
ClosureBroadcast ==
    [][/\ \A w \in Workers : (pc[w] = "delete" /\ pc'[w] = "idle") =>
             /\ last'.op = "delete" /\ last'.res \in {"Ok", "Internal"}
             /\ last'.res = "Ok" =>
                   /\ \E delivered \in BOOLEAN :
                         emitted' = Append(emitted, CloseEvent(last'.pin, delivered))
                   /\ FindByPin(lobbies', last'.pin) = {}
             /\ last'.res = "Internal" => emitted' = emitted
             /\ \A delivered \in BOOLEAN :
                   ENABLED (DeleteOne(w, delivered) /\ last'.res = "Ok")
       /\ \A w \in Workers, user \in Users, pin \in GamePins :
             DeleteFind(w, user, pin) => emitted' = emitted
       /\ emitted' # emitted =>
             \E w \in Workers :
                 pc[w] = "delete" /\ pc'[w] = "idle" /\ last'.op = "delete" /\ last'.res = "Ok"]_vars

\* a delete has answered with success although its close event got to nobody
ClosureBroadcastWitness ==
    /\ last.op = "delete" /\ last.res = "Ok"
    /\ Len(emitted) = 1
    /\ emitted[1] = CloseEvent(last.pin, FALSE)

CreatedLobby ==
    (last.op = "create" /\ last.res = "Created") =>
        \E l \in lobbies :
            /\ l.id = last.id /\ l.pin = last.pin
            /\ FindByPin(lobbies, last.pin) = {l}
            /\ Len(l.pin) = PinLength /\ \A i \in DOMAIN l.pin : l.pin[i] \in Digits
            /\ l.maxPlayers \in MinPlayers..(IF l.shortGameDeck THEN MaxPlayersShortDeck
                                                                 ELSE MaxPlayersFullDeck)
            /\ l.roundTimeout \in MinRoundTimeout..MaxRoundTimeout
            /\ l.status = "WAITING"
            /\ l.players = << [name |-> l.owner, registered |-> TRUE, confirmed |-> TRUE] >>
            /\ l.passphrase.def <=> l.with2FA

CreateTerminates ==
    \A w \in Workers : (pc[w] \in {"pin", "save"}) ~> (pc[w] = "idle")

Rejections ==
    {"NotFound", "BadRequest", "LobbyFull", "InvalidPassphrase", "AlreadyJoined",
     "BadName", "NameTaken"}

\* C17: a join that is refused (NotFound, BadRequest, LobbyFull,
\* InvalidPassphrase, AlreadyJoined, BadName or NameTaken) is answered in the
\* step that read the lobby, with the repository left as it was and no write
\* pending; an inspect and a name check leave the repository as it was
\* whatever they answer.
RejectedJoinChangesNothing ==
    [][/\ (served' # served /\ pc' = pc /\ last'.op \in {"join", "inspect", "name"}) =>
             /\ lobbies' = lobbies
             /\ loc' = loc
             /\ last'.op = "join" => last'.res \in Rejections
       /\ (last' # last /\ last'.op = "join" /\ last'.res \in Rejections) =>
             (lobbies' = lobbies /\ pc' = pc)
       /\ (last' # last /\ last'.op \in {"inspect", "name"}) => lobbies' = lobbies]_vars

\* a join was refused for its name and the lobby is stored as before,
\* without a slot for the joiner
RejectedJoinWitness ==
    /\ last.op = "join" /\ last.res = "NameTaken"
    /\ \A w \in Workers : pc[w] = "idle"
    /\ \E l \in lobbies : l.id = last.id /\ Len(l.players) = 1

\* C18: the write of an accepted join changes nothing but the players array
\* of the lobby it read: that document keeps its pin, passphrase, with2FA,
\* owner, maxPlayers, roundTimeout and status as stored at the write, every
\* other document stays as it is, and none is added or removed.
JoinWritesPlayersOnly ==
    [][\A w \in Workers : (pc[w] = "write" /\ pc'[w] = "idle") =>
          /\ last'.op = "join" /\ last'.res = "Ok"
          /\ \A l \in lobbies : \E m \in lobbies' :
                /\ m.id = l.id
                /\ m = [l EXCEPT !.players = m.players]
                /\ l.id # loc[w].lobby.id => m = l
          /\ \A m \in lobbies' : \E l \in lobbies : l.id = m.id]_vars

\* a join has been written into one of two stored lobbies
JoinWritesPlayersOnlyWitness ==
    /\ last.op = "join" /\ last.res = "Ok"
    /\ \E l \in lobbies, m \in lobbies :
          /\ l.id = last.id /\ m.id # l.id
          /\ HoldsSlot(l, last.player)
          /\ Len(m.players) = 1

\* C19: in every reachable state no two confirmed slots of a lobby hold the
\* same name (compared exactly, case included).
ConfirmedNamesUnique ==
    \A l \in lobbies : \A i \in DOMAIN l.players, j \in DOMAIN l.players :
        (i # j /\ l.players[i].confirmed /\ l.players[j].confirmed)
            => l.players[i].name # l.players[j].name

\* C20: the write of a join leaves the players array of a lobby whose stored
\* status is not WAITING as it is, also when the join read the lobby while
\* it was still WAITING.
StartedLobbyKeepsPlayers ==
    [][\A w \in Workers : (pc[w] = "write" /\ pc'[w] = "idle") =>
          \A l \in lobbies : (l.id = loc[w].lobby.id /\ l.status # "WAITING") =>
              \E m \in lobbies' : m.id = l.id /\ m.players = l.players]_vars

\* C21: when a join writes after the lobby it read has been deleted, the
\* write brings no lobby back and changes no stored lobby (one created since
\* under the same pin included), and the join does not answer with success
\* and credentials.
JoinAfterDelete ==
    [][\A w \in Workers :
          (pc[w] = "write" /\ pc'[w] = "idle"
              /\ \A l \in lobbies : l.id # loc[w].lobby.id) =>
              /\ lobbies' = lobbies
              /\ ~(last'.op = "join" /\ last'.res = "Ok" /\ last'.cred # {})]_vars

====
